---------------------------- MODULE Spec2Model ----------------------------
(***************************************************************************)
(* Model of mcp-memo: the memos API client (Server / HttpServer transport,  *)
(* AuthService, NoteService) and the MemoMCP tool dispatcher built on it.   *)
(*                                                                         *)
(* A JSON object is a function from the keys it carries to their values,    *)
(* so "the field is absent" is "the key is not in the DOMAIN".  An async    *)
(* call is a process: it is split at its await points (the request is in    *)
(* flight between Issue and Respond / SendFail), everything between two     *)
(* await points is one step.  The remote memos service is the environment.  *)
(***************************************************************************)
EXTENDS Integers, Sequences, FiniteSets, TLC

(***************************************************************************)
(* Bounds of the model.                                                     *)
(***************************************************************************)
\* pages a single list_notes call may be served before the cursor must end
MaxPages == 3
\* items on one page of the list endpoint
MaxPageLen == 1
\* tool / service invocations in one behaviour
MaxCalls == 3
\* notes the remote service creates in one behaviour
MaxNotes == 1
\* sessions sign_in derives in one behaviour
MaxDerived == 1
\* requests a list_notes call sends to a service whose cursor never ends
MaxDrain == 5

\* the two concurrently running call slots
Calls == {"c1", "c2"}

(***************************************************************************)
(* Values.                                                                  *)
(***************************************************************************)
\* serde's null, and Option::None on the typed side
Null == "<null>"
None == "<None>"

Host == "localhost:5230"
RootToken == "memos_pat"

\* cursors of the list endpoint
PageTokens == {"t1", "t2"}

\* enum State (note.rs), variant |-> serde rename
StateWire == [StateUnspecified |-> "STATE_UNSPECIFIED", Normal |-> "NORMAL",
              Archived |-> "ARCHIVED"]
\* enum Visibility (note.rs), variant |-> serde rename
VisibilityWire == [VisibilityUnspecified |-> "VISIBILITY_UNSPECIFIED",
                   Private |-> "PRIVATE", Protected |-> "PROTECTED",
                   Public |-> "PUBLIC"]

\* The variant whose serde rename is the wire string w (w is a rename).
VariantOf(table, w) == CHOOSE v \in DOMAIN table : table[v] = w

IsRename(table, w) == \E v \in DOMAIN table : table[v] = w

(***************************************************************************)
(* struct Note.  Of the fields outside the update mask the model keeps      *)
(* creator; tags, pinned, the timestamps and the sub-entity lists are       *)
(* #[serde(default)] like creator and are not modelled.                     *)
(***************************************************************************)
\* Note::new(content)
NewNote(content) ==
    [name |-> None, state |-> "Normal", creator |-> None,
     content |-> content, visibility |-> "Private"]

\* Option<String> as serde writes it
SerOption(o) == IF o = None THEN Null ELSE o

\* #[derive(Serialize)] for Note: every field is written, None as null
SerializeNote(n) ==
    [name |-> SerOption(n.name), state |-> StateWire[n.state],
     creator |-> SerOption(n.creator), content |-> n.content,
     visibility |-> VisibilityWire[n.visibility]]

\* #[serde(default)] Option<String>: absent and null both give None
DeOption(j, key) ==
    IF key \in DOMAIN j /\ j[key] # Null THEN j[key] ELSE None

\* #[derive(Deserialize)] for Note accepts j: state, content and visibility
\* are required, the enums must carry a known rename
NoteDecodes(j) ==
    /\ {"state", "content", "visibility"} \subseteq DOMAIN j
    /\ IsRename(StateWire, j["state"])
    /\ IsRename(VisibilityWire, j["visibility"])
    /\ j["content"] # Null

DeserializeNote(j) ==
    [name |-> DeOption(j, "name"), state |-> VariantOf(StateWire, j["state"]),
     creator |-> DeOption(j, "creator"), content |-> j["content"],
     visibility |-> VariantOf(VisibilityWire, j["visibility"])]

\* Vec<Note>
NotesDecode(js) == \A i \in 1..Len(js) : NoteDecodes(js[i])
DeserializeNotes(js) == [i \in 1..Len(js) |-> DeserializeNote(js[i])]
SerializeNotes(ns) == [i \in 1..Len(ns) |-> SerializeNote(ns[i])]

(***************************************************************************)
(* Results (anyhow::Result) and error messages (e.to_string()).             *)
(***************************************************************************)
Ok(v) == [kind |-> "ok", val |-> v]
Err(m) == [kind |-> "err", msg |-> m]
\* Option::unwrap() on None: the call unwinds, no Result is produced
Panic == [kind |-> "panic"]
NoResult == [kind |-> "none"]
Unit == [unit |-> TRUE]

\* anyhow!("Request failed: {} - {}", status, text)
RequestFailed(status, text) ==
    [fmt |-> "Request failed: {} - {}", status |-> status, text |-> text]
\* reqwest::Error of send()
SendError == [fmt |-> "error sending request"]
\* reqwest::Error of text() / json()
BodyError == [fmt |-> "error decoding response body"]

(***************************************************************************)
(* Transport: trait HttpServer.                                             *)
(***************************************************************************)
NoBody == [kind |-> "none"]
JsonBody(j) == [kind |-> "json", json |-> j]

\* build_get_request / build_post_request / build_delete_request /
\* build_patch_request: format!("{}/{}", base_url, endpoint), the JSON
\* content type and bearer_auth(token)
BuildRequest(method, sess, endpoint) ==
    [method |-> method, base_url |-> sess.base_url, endpoint |-> endpoint,
     content_type |-> "application/json", bearer |-> sess.token,
     body |-> NoBody]

\* RequestBuilder::json(body)
WithJson(req, j) == [req EXCEPT !.body = JsonBody(j)]

\* StatusCode::is_success
IsSuccess(status) == status >= 200 /\ status < 300

\* validate_response with the status check left out
validate_response_lenient(rsp) == Ok(Unit)

\* validate_response: a non-2xx status is an error carrying status and body
\* text (rsp.text().await? fails when the body cannot be read)
validate_response(rsp) ==
    IF ~IsSuccess(rsp.status)
    THEN IF rsp.readable THEN Err(RequestFailed(rsp.status, rsp.body))
         ELSE Err(BodyError)
    ELSE Ok(Unit)

(***************************************************************************)
(* Session: struct Server.                                                  *)
(***************************************************************************)
\* Server::new(host, token)
ServerNew(host, token) ==
    [base_url |-> <<"http://", host, "/api/v1">>, token |-> token,
     sign_out_required |-> FALSE]

(***************************************************************************)
(* Endpoints.  An endpoint is the path format!() builds and the query       *)
(* string, if any.                                                          *)
(***************************************************************************)
NoQuery == [key |-> "none"]
Endpoint(path) == [path |-> path, query |-> NoQuery]
EndpointQ(path, key, value) ==
    [path |-> path, query |-> [key |-> key, value |-> value]]

(***************************************************************************)
(* AuthService (auth.rs) and Server::cleanup (memos/mod.rs).                *)
(***************************************************************************)
\* get_current_user: build_get_request("auth/me")
get_current_user_request(sess) ==
    BuildRequest("GET", sess, Endpoint(<<"auth/me">>))

\* get_current_user::ResponseBody { user: User }; User requires role,
\* username and state
UserBodyDecodes(j) ==
    /\ "user" \in DOMAIN j
    /\ {"role", "username", "state"} \subseteq DOMAIN j["user"]

DeserializeUserBody(j) == j["user"]

\* sign_in: RequestBody { passwordCredentials: { username, password } }
sign_in_request(sess, username, password) ==
    WithJson(BuildRequest("POST", sess, Endpoint(<<"auth/signin">>)),
             [passwordCredentials |->
                 [username |-> username, password |-> password]])

\* sign_in::ResponseBody { accessToken: String }
AccessTokenDecodes(j) == "accessToken" \in DOMAIN j /\ j["accessToken"] # Null

DeserializeAccessToken(j) == [access_token |-> j["accessToken"]]

\* sign_in_session with the derived mark forgotten
sign_in_session_root(sess, data) ==
    [base_url |-> sess.base_url, token |-> data.access_token,
     sign_out_required |-> FALSE]

\* sign_in: Ok(Server { base_url: self.base_url(), token: access_token,
\* sign_out_required: true })
sign_in_session(sess, data) ==
    [base_url |-> sess.base_url, token |-> data.access_token,
     sign_out_required |-> TRUE]

\* cleanup: build_post_request("auth/signout")
cleanup_request(sess) ==
    BuildRequest("POST", sess, Endpoint(<<"auth/signout">>))

(***************************************************************************)
(* NoteService (note.rs).                                                   *)
(***************************************************************************)
\* create_note_request posting Note::new(content) instead of the note
create_note_request_defaults(sess, note) ==
    WithJson(BuildRequest("POST", sess, Endpoint(<<"memos">>)),
             SerializeNote(NewNote(note.content)))

\* create_note: build_post_request("memos").json(note)
create_note_request(sess, note) ==
    WithJson(BuildRequest("POST", sess, Endpoint(<<"memos">>)),
             SerializeNote(note))

\* create_note_comment: format!("{}/comments", note_name), .json(comment)
create_note_comment_request(sess, note_name, comment) ==
    WithJson(BuildRequest("POST", sess, Endpoint(<<note_name, "/comments">>)),
             SerializeNote(comment))

\* delete_note: build_delete_request(note_name)
delete_note_request(sess, note_name) ==
    BuildRequest("DELETE", sess, Endpoint(<<note_name>>))

\* get_note: build_get_request(note_name)
get_note_request(sess, note_name) ==
    BuildRequest("GET", sess, Endpoint(<<note_name>>))

\* list_note_comments: format!("{}/comments", note_name)
list_note_comments_request(sess, note_name) ==
    BuildRequest("GET", sess, Endpoint(<<note_name, "/comments">>))

\* list_note_comments::CommentsResponse { memos: Vec<Note> }
CommentsResponseDecodes(j) ==
    "memos" \in DOMAIN j /\ NotesDecode(j["memos"])

DeserializeCommentsResponse(j) == DeserializeNotes(j["memos"])

\* list_notes_endpoint asking for the first page whatever the cursor
list_notes_endpoint_restart(next_page_token) == Endpoint(<<"memos">>)

\* list_notes: "memos?pageToken={}" when the cursor is not empty, "memos"
\* otherwise
list_notes_endpoint(next_page_token) ==
    IF next_page_token # ""
    THEN EndpointQ(<<"memos">>, "pageToken", next_page_token)
    ELSE Endpoint(<<"memos">>)

list_notes_request(sess, next_page_token) ==
    BuildRequest("GET", sess, list_notes_endpoint(next_page_token))

\* list_notes::NotesRespones { memos: Vec<Note>,
\* #[serde(default)] nextPageToken: String }
NotesResponesDecodes(j) ==
    /\ "memos" \in DOMAIN j
    /\ NotesDecode(j["memos"])
    /\ "nextPageToken" \in DOMAIN j => j["nextPageToken"] # Null

DeserializeNotesRespones(j) ==
    [memos |-> DeserializeNotes(j["memos"]),
     next_page_token |->
        IF "nextPageToken" \in DOMAIN j THEN j["nextPageToken"] ELSE ""]

\* update_mask following the fields the note carries
update_mask_populated(note) ==
    <<"content", "state", "visibility", "tags", "pinned">>
    \o (IF note.creator # None THEN <<"creator">> ELSE <<>>)

\* update_note: "?updateMask=content,state,visibility,tags,pinned"
update_mask(note) == <<"content", "state", "visibility", "tags", "pinned">>

\* update_note: format!("{}?updateMask=...", note.name.as_ref().unwrap()),
\* build_patch_request(endpoint).json(note); the caller has checked the name
update_note_request(sess, note) ==
    WithJson(BuildRequest("PATCH", sess,
                 EndpointQ(<<note.name>>, "updateMask", update_mask(note))),
             SerializeNote(note))

(***************************************************************************)
(* validate_data_response::<T>, T one of the response types above.          *)
(***************************************************************************)
\* rsp.json::<T>() accepts the body j
Decodes(T, j) ==
    CASE T = "Note" -> NoteDecodes(j)
      [] T = "NotesRespones" -> NotesResponesDecodes(j)
      [] T = "CommentsResponse" -> CommentsResponseDecodes(j)
      [] T = "sign_in::ResponseBody" -> AccessTokenDecodes(j)
      [] T = "get_current_user::ResponseBody" -> UserBodyDecodes(j)

\* the T that rsp.json::<T>() gives
Deserialize(T, j) ==
    CASE T = "Note" -> DeserializeNote(j)
      [] T = "NotesRespones" -> DeserializeNotesRespones(j)
      [] T = "CommentsResponse" -> DeserializeCommentsResponse(j)
      [] T = "sign_in::ResponseBody" -> DeserializeAccessToken(j)
      [] T = "get_current_user::ResponseBody" -> DeserializeUserBody(j)

\* T::default(), where the fields of T have one
DefaultOf(T) ==
    CASE T = "Note" -> NewNote("")
      [] T = "NotesRespones" -> [memos |-> <<>>, next_page_token |-> ""]
      [] T = "CommentsResponse" -> <<>>
      [] T = "sign_in::ResponseBody" -> [access_token |-> ""]
      [] T = "get_current_user::ResponseBody" ->
            [role |-> "", username |-> "", state |-> ""]

\* validate_data_response giving the default value for a body that does
\* not decode
validate_data_response_default(rsp, T) ==
    IF ~IsSuccess(rsp.status)
    THEN IF rsp.readable THEN Err(RequestFailed(rsp.status, rsp.body))
         ELSE Err(BodyError)
    ELSE IF rsp.readable /\ Decodes(T, rsp.body) THEN Ok(Deserialize(T, rsp.body))
    ELSE Ok(DefaultOf(T))

\* validate_data_response::<T>: as validate_response, then rsp.json::<T>()
validate_data_response(rsp, T) ==
    IF ~IsSuccess(rsp.status)
    THEN IF rsp.readable THEN Err(RequestFailed(rsp.status, rsp.body))
         ELSE Err(BodyError)
    ELSE IF rsp.readable /\ Decodes(T, rsp.body) THEN Ok(Deserialize(T, rsp.body))
    ELSE Err(BodyError)

(***************************************************************************)
(* Tool dispatcher: MemoMCP (mcp/mod.rs).                                   *)
(***************************************************************************)
Tools == {"list_memos", "get_memo", "create_memo", "update_memo",
          "delete_memo", "create_memo_comment", "list_memo_comments"}

\* the NoteService operation each tool handler awaits
ServiceOf ==
    [list_memos |-> "list_notes", get_memo |-> "get_note",
     create_memo |-> "create_note", update_memo |-> "update_note",
     delete_memo |-> "delete_note",
     create_memo_comment |-> "create_note_comment",
     list_memo_comments |-> "list_note_comments"]

\* ParamsDecode with delete_memo asking for the name of the Note
ParamsDecode_named(tool, j) ==
    CASE tool = "list_memos" -> TRUE
      [] tool \in {"get_memo", "list_memo_comments"} ->
            "name" \in DOMAIN j /\ j["name"] # Null
      [] tool \in {"create_memo", "update_memo"} -> NoteDecodes(j)
      [] tool = "delete_memo" ->
            NoteDecodes(j) /\ "name" \in DOMAIN j /\ j["name"] # Null
      [] tool = "create_memo_comment" ->
            /\ {"memo_name", "comment"} \subseteq DOMAIN j
            /\ j["memo_name"] # Null
            /\ NoteDecodes(j["comment"])

\* Parameters<T>: the tool's input decodes into T (serde_json::Value,
\* MemoNameParam, Note, CommentMemoParam)
ParamsDecode(tool, j) ==
    CASE tool = "list_memos" -> TRUE
      [] tool \in {"get_memo", "list_memo_comments"} ->
            "name" \in DOMAIN j /\ j["name"] # Null
      [] tool \in {"create_memo", "update_memo", "delete_memo"} ->
            NoteDecodes(j)
      [] tool = "create_memo_comment" ->
            /\ {"memo_name", "comment"} \subseteq DOMAIN j
            /\ j["memo_name"] # Null
            /\ NoteDecodes(j["comment"])

DeserializeParams(tool, j) ==
    CASE tool = "list_memos" -> Unit
      [] tool \in {"get_memo", "list_memo_comments"} -> [name |-> j["name"]]
      [] tool \in {"create_memo", "update_memo", "delete_memo"} ->
            DeserializeNote(j)
      [] tool = "create_memo_comment" ->
            [memo_name |-> j["memo_name"],
             comment |-> DeserializeNote(j["comment"])]

\* delete_memo: note.name.as_ref().unwrap() runs in the tool handler, before
\* delete_note is called
ToolUnwrapPanics(tool, params) ==
    tool = "delete_memo" /\ params.name = None

\* the arguments the tool handler passes to the service operation
ServiceArg(tool, params) ==
    CASE tool = "list_memos" -> Unit
      [] tool \in {"get_memo", "list_memo_comments"} ->
            [note_name |-> params.name]
      [] tool \in {"create_memo", "update_memo"} -> [note |-> params]
      [] tool = "delete_memo" -> [note_name |-> params.name]
      [] tool = "create_memo_comment" ->
            [note_name |-> params.memo_name, comment |-> params.comment]

NoPayload == [kind |-> "none"]
\* the String a tool handler returns, as the JSON value it holds
JsonPayload(j) == [kind |-> "json", json |-> j]
\* the handler unwound: no String is returned
PanicPayload == [kind |-> "panic"]
\* the input did not decode: the handler was not run
RejectedPayload == [kind |-> "rejected"]

\* Err(e) => json!({"error": e.to_string()}).to_string()
ErrorPayload(msg) == JsonPayload([error |-> msg])

\* Ok(v) => json!(v).to_string(); delete_memo: json!({"status": "success"})
SuccessPayload(tool, val) ==
    CASE tool \in {"list_memos", "list_memo_comments"} ->
            JsonPayload(SerializeNotes(val))
      [] tool \in {"get_memo", "create_memo", "update_memo",
                   "create_memo_comment"} -> JsonPayload(SerializeNote(val))
      [] tool = "delete_memo" -> JsonPayload([status |-> "success"])

\* the match of every tool handler on the service operation's outcome
ToolEncode(tool, result) ==
    CASE result.kind = "ok" -> SuccessPayload(tool, result.val)
      [] result.kind = "err" -> ErrorPayload(result.msg)
      [] result.kind = "panic" -> PanicPayload

(***************************************************************************)
(* The remote memos service (the environment).  It keeps the notes it was   *)
(* sent under the names it assigns, the access tokens it issued and the     *)
(* tokens that were signed out.  Any request may also be answered with a    *)
(* server error, and any 2xx answer may carry a body of another schema.     *)
(***************************************************************************)
NamePool == <<"memos/1", "memos/2", "memos/3", "memos/4">>
TokenPool == <<"at1", "at2", "at3">>

NoteA == [name |-> "memos/1", state |-> "NORMAL", creator |-> "users/1",
          content |-> "a", visibility |-> "PRIVATE"]

Reply(status, body) == [status |-> status, readable |-> TRUE, body |-> body]

Range(f) == {f[x] : x \in DOMAIN f}

\* the note the service keeps for a created note: it assigns name and creator
Stored(j, name) ==
    [k \in DOMAIN j \cup {"name", "creator"} |->
        IF k = "name" THEN name
        ELSE IF k = "creator" THEN "users/1" ELSE j[k]]

\* the note after a PATCH: the fields of the update mask are taken from j
Patched(old, j, mask) ==
    [k \in DOMAIN old |->
        IF k \in Range(mask) /\ k \in DOMAIN j THEN j[k] ELSE old[k]]

\* the notes of the collection the list endpoints serve, in the service's
\* order: the i-th has the i-th content
ContentPool == <<"n1", "n2", "n3", "n4", "n5", "n6", "n7", "n8", "n9">>
Item(i) == [NoteA EXCEPT !.content = ContentPool[((i - 1) % Len(ContentPool)) + 1]]

\* the pages a list endpoint may serve to a call that was served m items so
\* far: the next n items, n <= MaxPageLen
PagesAfter(m) ==
    {[i \in 1..n |-> Item(m + i)] : n \in 0..MaxPageLen}

\* the bodies of the list endpoint for the k-th request of a call: a page
\* and an absent, an empty or (while k < MaxPages) a non-empty cursor
ListBodies(k, m) ==
    {[memos |-> p] : p \in PagesAfter(m)}
    \cup {[memos |-> p, nextPageToken |-> t] :
            p \in PagesAfter(m),
            t \in {""} \cup (IF k < MaxPages THEN PageTokens ELSE {})}

NotFound(r) == [rsp |-> Reply(404, [message |-> "not found"]), remote |-> r]

CreateNote(j, r) ==
    IF r.assigned < Len(NamePool) /\ r.created < MaxNotes
    THEN LET name == NamePool[r.assigned + 1]
             kept == Stored(j, name)
         IN  [rsp |-> Reply(200, kept),
              remote |-> [r EXCEPT !.assigned = @ + 1, !.created = @ + 1,
                             !.store = [n \in DOMAIN @ \cup {name} |->
                                           IF n = name THEN kept ELSE @[n]]]]
    ELSE [rsp |-> Reply(429, [message |-> "too many notes"]), remote |-> r]

\* what the service does with req in state r (k: the requests of the call so
\* far, m: the items it was served so far)
Served(req, r, k, m) ==
    LET path == req.endpoint.path
        first == path[1]
    IN
    IF req.bearer \in r.revoked
    THEN {[rsp |-> Reply(401, [message |-> "unauthenticated"]), remote |-> r]}
    ELSE IF Len(path) = 2
    THEN \* <name>/comments
         IF first \notin DOMAIN r.store THEN {NotFound(r)}
         ELSE IF req.method = "POST" THEN {CreateNote(req.body.json, r)}
         ELSE {[rsp |-> Reply(200, [memos |-> p]), remote |-> r] :
                    p \in PagesAfter(m)}
    ELSE IF first = "auth/me"
    THEN {[rsp |-> Reply(200, [user |-> [role |-> "USER", username |-> "alice",
                                         state |-> "NORMAL"]]),
           remote |-> r]}
    ELSE IF first = "auth/signin"
    THEN IF /\ req.body.json["passwordCredentials"] =
                    [username |-> "alice", password |-> "pw"]
            /\ r.issued < Len(TokenPool)
         THEN {[rsp |-> Reply(200, [accessToken |-> TokenPool[r.issued + 1]]),
                remote |-> [r EXCEPT !.issued = @ + 1]]}
         ELSE {[rsp |-> Reply(401, [message |-> "bad credentials"]),
                remote |-> r]}
    ELSE IF first = "auth/signout"
    THEN {[rsp |-> Reply(200, [signedOut |-> TRUE]),
           remote |-> [r EXCEPT !.revoked = @ \cup {req.bearer}]]}
    ELSE IF first = "memos"
    THEN IF req.method = "POST" THEN {CreateNote(req.body.json, r)}
         ELSE {[rsp |-> Reply(200, b), remote |-> r] : b \in ListBodies(k, m)}
    ELSE \* <name>
         IF first \notin DOMAIN r.store THEN {NotFound(r)}
         ELSE IF req.method = "GET"
         THEN {[rsp |-> Reply(200, r.store[first]), remote |-> r]}
         ELSE IF req.method = "PATCH"
         THEN LET kept == Patched(r.store[first], req.body.json,
                                  req.endpoint.query.value)
              IN  {[rsp |-> Reply(200, kept),
                    remote |-> [r EXCEPT !.store[first] = kept]]}
         ELSE \* DELETE
              {[rsp |-> Reply(200, [deleted |-> TRUE]),
                remote |-> [r EXCEPT
                    !.store = [n \in DOMAIN @ \ {first} |-> @[n]]]]}

\* the body with one of its fields missing (a body of several fields)
Lacking(body) ==
    IF Cardinality(DOMAIN body) > 1
    THEN {[k \in DOMAIN body \ {x} |-> body[k]] : x \in DOMAIN body}
    ELSE {}

\* every answer the call may receive: what the service does, the same with a
\* 2xx body of another schema or with a field missing, and a server error
\* whose body can or cannot be read
Answers(req, r, k, m) ==
    LET served == Served(req, r, k, m)
    IN  served
        \cup UNION {{[o EXCEPT !.rsp.body = b] :
                        b \in {[html |-> "<html>"]} \cup Lacking(o.rsp.body)} :
                    o \in {x \in served : IsSuccess(x.rsp.status)}}
        \cup {[rsp |-> [status |-> 500, readable |-> rd,
                        body |-> [message |-> "internal"]],
               remote |-> r] : rd \in BOOLEAN}

(***************************************************************************)
(* State.                                                                   *)
(***************************************************************************)
VARIABLES
    sessions,   \* the Server values alive: sessions[1] is MemoMCP.server,
                \* the others were returned by sign_in
    calls,      \* the tool or service call running in each slot
    remote,     \* the state of the remote service
    ncalls,     \* invocations so far
    observed,   \* what the callers have seen: created[n], the state,
                \* content and visibility given to the create call that
                \* returned the name n, until an update or delete of n is
                \* issued; deleted, the names whose delete returned Ok;
                \* cleanups, the cleanup calls on sessions sign_in returned,
                \* and signouts, the sign-out requests sent
    main        \* the process: where main() is, its identity check, and
                \* what it has set up (the tool service, the listener)

vars == <<sessions, calls, remote, ncalls, observed, main>>

NoRequest == [method |-> "none"]
NoResponse == [status |-> 0]

\* A call: where it is (pc), the tool and the service operation, the session
\* it runs on, the JSON input of the tool, its arguments, the locals of list_notes (memos,
\* next_page_token), its outcome (result, payload), and its HTTP exchanges:
\* the last request and answer, how many there were, and what the list
\* endpoint served to it in well-formed 2xx pages (served, npages).
IdleCall ==
    [pc |-> "idle", tool |-> "none", op |-> "none", sess |-> 0,
     input |-> Unit, params |-> Unit, arg |-> Unit, memos |-> <<>>, next_page_token |-> "",
     nreq |-> 0, req |-> NoRequest, nrsp |-> 0, rsp |-> NoResponse,
     served |-> <<>>, npages |-> 0,
     result |-> NoResult, payload |-> NoPayload]

\* main() before its first statement: nothing was sent, nothing is set up.
\* check is the outcome of the identity check, result what main() ends with.
MainStart ==
    [pc |-> "start", nreq |-> 0, req |-> NoRequest, nrsp |-> 0,
     rsp |-> NoResponse, check |-> NoResult, service |-> FALSE,
     bound |-> FALSE, result |-> NoResult]

(***************************************************************************)
(* Inputs.                                                                  *)
(***************************************************************************)
InputNames == {"memos/1", "memos/2"}

\* the state, content, visibility (and creator) of the Note inputs
VariantA == [state |-> "NORMAL", content |-> "a", visibility |-> "PRIVATE"]
VariantB == [state |-> "ARCHIVED", content |-> "b", visibility |-> "PUBLIC",
             creator |-> "users/7"]
VariantC == [state |-> "STATE_UNSPECIFIED", content |-> "c",
             visibility |-> "PROTECTED"]
Variants == {VariantA, VariantB, VariantC}

WithName(j, name) ==
    [k \in DOMAIN j \cup {"name"} |-> IF k = "name" THEN name ELSE j[k]]

\* Note inputs: each variant without a name, with a null name and with each
\* name; and the inputs that lack a required field
NoteInputs ==
    Variants
    \cup {WithName(v, n) : v \in Variants, n \in InputNames}
    \cup {WithName(VariantA, Null),
          [name |-> "memos/1"],
          [name |-> "memos/1", state |-> "NORMAL", content |-> "a"],
          [name |-> "memos/1", state |-> "DELETED", content |-> "a",
           visibility |-> "PRIVATE"]}

ToolInputs(tool) ==
    CASE tool = "list_memos" -> {[any |-> TRUE]}
      [] tool \in {"get_memo", "list_memo_comments"} ->
            {[name |-> n] : n \in InputNames}
      [] tool \in {"create_memo", "update_memo", "delete_memo"} -> NoteInputs
      [] tool = "create_memo_comment" ->
            {[memo_name |-> n, comment |-> v] :
                n \in InputNames, v \in Variants \cup {[name |-> "memos/1"]}}

\* the environment of the process: MEMOS_HOST and MEMOS_TOKEN, or
\* MEMOS_TOKEN not set
Envs == {[MEMOS_HOST |-> Host, MEMOS_TOKEN |-> RootToken],
         [MEMOS_HOST |-> Host]}

\* the operations a user of the client library calls on a session
ServiceOps == {"sign_in", "cleanup", "get_note"}

\* the sessions the operation is called on: get_note on those sign_in
\* returned (the tools call it on the dispatcher's)
ServiceSessions(op) ==
    IF op = "get_note" THEN 2..Len(sessions) ELSE 1..Len(sessions)

ServiceInputs(op) ==
    CASE op = "sign_in" ->
            {[username |-> "alice", password |-> pw] : pw \in {"pw", "bad"}}
      [] op = "cleanup" -> {Unit}
      [] op = "get_note" -> {[note_name |-> "memos/1"]}

(***************************************************************************)
(* The calls.                                                               *)
(***************************************************************************)
Init ==
    /\ sessions = <<ServerNew(Host, RootToken)>>
    /\ calls = [c \in Calls |-> IdleCall]
    /\ remote = [store |-> [n \in {"memos/1"} |-> NoteA], assigned |-> 1,
                 created |-> 0, issued |-> 0, revoked |-> {}]
    /\ ncalls = 0
    /\ observed = [created |-> <<>>, deleted |-> {}, cleanups |-> 0,
                   signouts |-> 0]
    /\ main = MainStart

\* the call ends with the service operation's outcome; a tool handler
\* encodes it
Finish(call, result) ==
    [call EXCEPT !.pc = "done", !.result = result,
                 !.payload = IF call.tool = "none" THEN NoPayload
                             ELSE ToolEncode(call.tool, result)]

\* the slots are taken in order: a call starts in c2 only while c1 is busy
SlotFree(c) ==
    /\ calls[c].pc = "idle"
    /\ c = "c1" \/ calls["c1"].pc # "idle"

\* axum::serve is running: the listener accepts tool calls
Serving == main.pc = "serving"

\* a client calls a tool of the dispatcher with the JSON input j
InvokeTool(c, tool, j) ==
    /\ Serving
    /\ SlotFree(c)
    /\ ncalls < MaxCalls
    /\ ncalls' = ncalls + 1
    /\ calls' = [calls EXCEPT ![c] =
          IF ParamsDecode(tool, j)
          THEN LET params == DeserializeParams(tool, j)
               IN  [IdleCall EXCEPT
                      !.pc = "run", !.tool = tool, !.op = ServiceOf[tool],
                      !.sess = 1, !.input = j, !.params = params,
                      !.arg = IF ToolUnwrapPanics(tool, params) THEN Unit
                              ELSE ServiceArg(tool, params)]
          ELSE [IdleCall EXCEPT !.pc = "done", !.tool = tool, !.input = j,
                                !.payload = RejectedPayload]]
    /\ UNCHANGED <<sessions, remote, observed, main>>

\* sign_in calls that have not returned yet
SigningIn == {c \in Calls : calls[c].op = "sign_in" /\ calls[c].pc # "done"}

\* a user of the client library calls sign_in or cleanup on session s
InvokeService(c, op, s, arg) ==
    /\ SlotFree(c)
    /\ ncalls < MaxCalls
    /\ op = "sign_in" => Len(sessions) - 1 + Cardinality(SigningIn) < MaxDerived
    /\ ncalls' = ncalls + 1
    /\ calls' = [calls EXCEPT ![c] =
          [IdleCall EXCEPT !.pc = "run", !.op = op, !.sess = s, !.arg = arg]]
    /\ UNCHANGED <<sessions, remote, observed, main>>

\* cleanup_signs_out without the test of sign_out_required
cleanup_signs_out_always(sess) == TRUE

\* cleanup: if self.sign_out_required
cleanup_signs_out(sess) == sess.sign_out_required

\* the request the operation sends next
RequestOf(call, sess) ==
    CASE call.op = "list_notes" ->
            list_notes_request(sess, call.next_page_token)
      [] call.op = "get_note" -> get_note_request(sess, call.arg.note_name)
      [] call.op = "create_note" -> create_note_request(sess, call.arg.note)
      [] call.op = "create_note_comment" ->
            create_note_comment_request(sess, call.arg.note_name,
                                        call.arg.comment)
      [] call.op = "delete_note" ->
            delete_note_request(sess, call.arg.note_name)
      [] call.op = "list_note_comments" ->
            list_note_comments_request(sess, call.arg.note_name)
      [] call.op = "update_note" -> update_note_request(sess, call.arg.note)
      [] call.op = "sign_in" ->
            sign_in_request(sess, call.arg.username, call.arg.password)
      [] call.op = "cleanup" -> cleanup_request(sess)

\* f without the key n
Without(f, n) == [k \in DOMAIN f \ {n} |-> f[k]]

\* f with the key n at v
With(f, n, v) == [k \in DOMAIN f \cup {n} |-> IF k = n THEN v ELSE f[k]]

\* the name of the note an update or delete call is about
Touches(call) ==
    CASE call.op = "update_note" -> call.arg.note.name
      [] call.op = "delete_note" -> call.arg.note_name
      [] OTHER -> None

\* the note given to a create call
Given(call) ==
    IF call.op = "create_note" THEN call.arg.note ELSE call.arg.comment

\* what the callers have seen once the call in flight has ended as after
ObservedAfter(call, after) ==
    IF after.pc = "done" /\ after.result.kind = "ok"
    THEN IF /\ call.op \in {"create_note", "create_note_comment"}
            /\ after.result.val.name # None
         THEN [observed EXCEPT !.created =
                  With(@, after.result.val.name,
                       [state |-> Given(call).state,
                        content |-> Given(call).content,
                        visibility |-> Given(call).visibility])]
         ELSE IF call.op = "delete_note"
         THEN [observed EXCEPT !.deleted = @ \cup {call.arg.note_name}]
         ELSE observed
    ELSE observed

IsSignOut(req) ==
    /\ req.method = "POST"
    /\ req.endpoint = Endpoint(<<"auth/signout">>)

\* obs with the call counted that has run to after: the cleanup calls on
\* sessions that sign_in returned, and the sign-out requests sent
Counted(call, after, obs) ==
    [obs EXCEPT
        !.cleanups = IF call.op = "cleanup" /\ call.sess > 1 THEN @ + 1 ELSE @,
        !.signouts = IF after.pc = "await" /\ IsSignOut(after.req)
                     THEN @ + 1 ELSE @]

\* the call runs to its next await: it unwinds at an unwrap() of an absent
\* name, returns without a request (cleanup of a root session), or builds
\* its request and sends it
Issue(c) ==
    LET call == calls[c]
        sess == sessions[call.sess]
    IN
    /\ call.pc = "run"
    /\ calls' = [calls EXCEPT ![c] =
          IF call.tool # "none" /\ ToolUnwrapPanics(call.tool, call.params)
          THEN [call EXCEPT !.pc = "done", !.payload = PanicPayload]
          ELSE IF call.op = "update_note" /\ call.arg.note.name = None
          THEN Finish(call, Panic)
          ELSE IF call.op = "cleanup" /\ ~cleanup_signs_out(sess)
          THEN Finish(call, Ok(Unit))
          ELSE [call EXCEPT !.pc = "await", !.nreq = @ + 1,
                            !.req = RequestOf(call, sess)]]
    /\ observed' = Counted(call, calls'[c],
                     IF calls'[c].pc = "await" /\ Touches(call) # None
                     THEN [observed EXCEPT
                             !.created = Without(@, Touches(call))]
                     ELSE observed)
    /\ UNCHANGED <<sessions, remote, ncalls, main>>

\* send().await? fails: the request got no answer
SendFail(c) ==
    /\ calls[c].pc = "await"
    /\ calls' = [calls EXCEPT ![c] = Finish(@, Err(SendError))]
    /\ UNCHANGED <<sessions, remote, ncalls, observed, main>>

\* list_notes_extend keeping the last page only
list_notes_extend_overwrite(memos, page) == page

\* list_notes: memos.extend(rsp.memos)
list_notes_extend(memos, page) == memos \o page

\* validate_data_response::<NotesRespones>
validate_notes_response(rsp) ==
    validate_data_response(rsp, "NotesRespones")

\* list_notes_on_page returning what it has accumulated when a page fails
list_notes_on_page_partial(call, rsp) ==
    LET r == validate_notes_response(rsp)
    IN  IF r.kind # "ok" THEN Finish(call, Ok(call.memos))
        ELSE LET memos == list_notes_extend(call.memos, r.val.memos)
             IN  IF r.val.next_page_token # ""
                 THEN [call EXCEPT !.memos = memos, !.pc = "run",
                          !.next_page_token = r.val.next_page_token]
                 ELSE Finish([call EXCEPT !.memos = memos], Ok(memos))

\* list_notes_on_page returning when a page hands back the cursor it was
\* asked with
list_notes_on_page_once(call, rsp) ==
    LET r == validate_notes_response(rsp)
    IN  IF r.kind # "ok" THEN Finish(call, r)
        ELSE LET memos == list_notes_extend(call.memos, r.val.memos)
             IN  IF /\ r.val.next_page_token # ""
                    /\ r.val.next_page_token # call.next_page_token
                 THEN [call EXCEPT !.memos = memos, !.pc = "run",
                          !.next_page_token = r.val.next_page_token]
                 ELSE Finish([call EXCEPT !.memos = memos], Ok(memos))

\* list_notes, from the answer of a page to the next request or the return:
\* validate_data_response::<NotesRespones>(rsp).await?, extend, and loop
\* while the cursor is not empty
list_notes_on_page(call, rsp) ==
    LET r == validate_notes_response(rsp)
    IN  IF r.kind # "ok" THEN Finish(call, r)
        ELSE LET memos == list_notes_extend(call.memos, r.val.memos)
             IN  IF r.val.next_page_token # ""
                 THEN [call EXCEPT !.memos = memos, !.pc = "run",
                          !.next_page_token = r.val.next_page_token]
                 ELSE Finish([call EXCEPT !.memos = memos], Ok(memos))

\* validate_note_response taking "not found" for an empty note
validate_note_response_tombstone(rsp) ==
    IF rsp.status = 404 THEN Ok(NewNote(""))
    ELSE validate_data_response(rsp, "Note")

\* validate_data_response::<Note>
validate_note_response(rsp) == validate_data_response(rsp, "Note")

\* sign_in, from the answer on
sign_in_result(sess, rsp) ==
    LET r == validate_data_response(rsp, "sign_in::ResponseBody")
    IN  IF r.kind = "ok" THEN Ok(sign_in_session(sess, r.val)) ELSE r

\* cleanup_result passing the answer through validate_response
cleanup_result_checked(rsp) == validate_response(rsp)

\* cleanup, from the answer on: the Response of send().await? is dropped,
\* Ok(()) whatever its status
cleanup_result(rsp) == Ok(Unit)

\* cleanup_session marking the session as signed out
cleanup_session_spent(sess) == [sess EXCEPT !.sign_out_required = FALSE]

\* the session a cleanup was called on, after it: cleanup takes &self and
\* assigns to no field
cleanup_session(sess) == sess

\* the answer rsp is a 2xx page of the list endpoint that decodes
IsPage(call, rsp) ==
    /\ call.op = "list_notes"
    /\ IsSuccess(rsp.status) /\ rsp.readable
    /\ Decodes("NotesRespones", rsp.body)

\* the call has its answer (kept for the record: the last answer, and the
\* pages the list endpoint has served)
Received(call, rsp) ==
    [call EXCEPT !.nrsp = @ + 1, !.rsp = rsp,
        !.served = IF IsPage(call, rsp) THEN @ \o rsp.body["memos"] ELSE @,
        !.npages = IF IsPage(call, rsp) THEN @ + 1 ELSE @]

\* the rest of the operation once the answer rsp is there
OnResponse(call, sess, rsp) ==
    LET got == Received(call, rsp)
    IN
    CASE call.op = "list_notes" -> list_notes_on_page(got, rsp)
      [] call.op \in {"get_note", "create_note", "create_note_comment",
                      "update_note"} ->
            Finish(got, validate_note_response(rsp))
      [] call.op = "delete_note" -> Finish(got, validate_response(rsp))
      [] call.op = "list_note_comments" ->
            Finish(got, validate_data_response(rsp, "CommentsResponse"))
      [] call.op = "sign_in" -> Finish(got, sign_in_result(sess, rsp))
      [] call.op = "cleanup" -> Finish(got, cleanup_result(rsp))

\* SessionsAfter with sign_in storing the new credential in the session it
\* was called on
SessionsAfter_in_place(call, after) ==
    IF call.op = "sign_in" /\ after.result.kind = "ok"
    THEN [sessions EXCEPT ![call.sess] = after.result.val]
    ELSE sessions

\* the sessions alive after the call got its answer: sign_in hands its
\* caller a new Server and leaves the others alone, cleanup leaves its own
\* as it is
SessionsAfter(call, after) ==
    IF call.op = "sign_in" /\ after.result.kind = "ok"
    THEN Append(sessions, after.result.val)
    ELSE IF call.op = "cleanup"
    THEN [sessions EXCEPT ![call.sess] = cleanup_session(@)]
    ELSE sessions

\* the remote service answers the request in flight and the call goes on
Respond(c) ==
    LET call == calls[c]
    IN
    /\ call.pc = "await"
    /\ \E o \in Answers(call.req, remote, call.nreq, Len(call.served)) :
          LET after == OnResponse(call, sessions[call.sess], o.rsp)
          IN  /\ remote' = o.remote
              /\ calls' = [calls EXCEPT ![c] = after]
              /\ sessions' = SessionsAfter(call, after)
              /\ observed' = ObservedAfter(call, after)
    /\ UNCHANGED <<ncalls, main>>

\* the caller takes the outcome
Return(c) ==
    /\ calls[c].pc = "done"
    /\ calls' = [calls EXCEPT ![c] = IdleCall]
    /\ UNCHANGED <<sessions, remote, ncalls, observed, main>>

(***************************************************************************)
(* main() (main.rs).                                                        *)
(***************************************************************************)
\* std::io::Error of TcpListener::bind
BindError == [fmt |-> "address in use"]

\* main going on after a failed identity check
main_after_check_ignored(check) == "checked"

\* `let me = server.get_current_user().await?;`: main returns the error of
\* the identity check, or goes on
main_after_check(check) == IF check.kind = "ok" THEN "checked" ELSE "aborted"

\* main() with the outcome of the identity check
MainChecked(m, check) ==
    LET pc == main_after_check(check)
    IN  [m EXCEPT !.pc = pc, !.check = check,
                  !.result = IF pc = "aborted" THEN check ELSE @]

\* std::env::var(..).unwrap() twice, Server::new(&host, &token), and
\* get_current_user up to its send().await
MainVerify(env) ==
    /\ main.pc = "start"
    /\ main' =
          IF {"MEMOS_HOST", "MEMOS_TOKEN"} \subseteq DOMAIN env
          THEN [main EXCEPT
                  !.pc = "await", !.nreq = @ + 1,
                  !.req = get_current_user_request(
                              ServerNew(env["MEMOS_HOST"], env["MEMOS_TOKEN"]))]
          ELSE [main EXCEPT !.pc = "panicked", !.result = Panic]
    /\ UNCHANGED <<sessions, calls, remote, ncalls, observed>>

\* the send().await? of the identity check fails
MainSendFail ==
    /\ main.pc = "await"
    /\ main' = MainChecked(main, Err(SendError))
    /\ UNCHANGED <<sessions, calls, remote, ncalls, observed>>

\* the identity check is answered:
\* validate_data_response::<ResponseBody>(rsp).await?.user
MainRespond ==
    /\ main.pc = "await"
    /\ \E o \in Answers(main.req, remote, main.nreq, 0) :
          /\ remote' = o.remote
          /\ main' = MainChecked(
                [main EXCEPT !.nrsp = @ + 1, !.rsp = o.rsp],
                validate_data_response(o.rsp, "get_current_user::ResponseBody"))
    /\ UNCHANGED <<sessions, calls, ncalls, observed>>

\* StreamableHttpService::new(move || Ok(MemoMCP::new(&host, &token)), ..)
\* and the Router
MainConstruct ==
    /\ main.pc = "checked"
    /\ main' = [main EXCEPT !.pc = "constructed", !.service = TRUE]
    /\ UNCHANGED <<sessions, calls, remote, ncalls, observed>>

\* TcpListener::bind(addr).await? succeeds
MainBind ==
    /\ main.pc = "constructed"
    /\ main' = [main EXCEPT !.pc = "bound", !.bound = TRUE]
    /\ UNCHANGED <<sessions, calls, remote, ncalls, observed>>

\* TcpListener::bind(addr).await? fails: main returns the error
MainBindFail ==
    /\ main.pc = "constructed"
    /\ main' = [main EXCEPT !.pc = "aborted", !.result = Err(BindError)]
    /\ UNCHANGED <<sessions, calls, remote, ncalls, observed>>

\* axum::serve(listener, app)
MainServe ==
    /\ main.pc = "bound"
    /\ main' = [main EXCEPT !.pc = "serving"]
    /\ UNCHANGED <<sessions, calls, remote, ncalls, observed>>

\* no call is in progress
Quiet == \A c \in Calls : calls[c].pc = "idle"

\* the steps of main()
MainNext ==
    \/ \E env \in Envs : MainVerify(env)
    \/ MainSendFail
    \/ MainRespond
    \/ MainConstruct
    \/ MainBind
    \/ MainBindFail
    \/ MainServe

\* The process starts, and once it serves the calls of one behaviour run
\* one after the other: a call is invoked when no other is in progress.
Next ==
    \/ MainNext
    \/ \E c \in Calls :
        \/ \E tool \in Tools : \E j \in ToolInputs(tool) :
             Quiet /\ InvokeTool(c, tool, j)
        \/ \E op \in ServiceOps :
             \E s \in ServiceSessions(op) : \E arg \in ServiceInputs(op) :
                Quiet /\ Serving /\ InvokeService(c, op, s, arg)
        \/ Issue(c)
        \/ SendFail(c)
        \/ Respond(c)
        \/ Return(c)

Spec == Init /\ [][Next]_vars

(***************************************************************************)
(* Concurrent calls: the process serves, and calls of the tools (and of     *)
(* sign_in on the dispatcher's session) start while another is running.     *)
(***************************************************************************)
\* main() once axum::serve runs: the identity check went through
MainServing ==
    [MainStart EXCEPT
        !.pc = "serving", !.nreq = 1, !.nrsp = 1,
        !.req = get_current_user_request(ServerNew(Host, RootToken)),
        !.rsp = Reply(200, [user |-> [role |-> "USER", username |-> "alice",
                                      state |-> "NORMAL"]]),
        !.check = Ok([role |-> "USER", username |-> "alice",
                      state |-> "NORMAL"]),
        !.service = TRUE, !.bound = TRUE]

InitServing ==
    /\ sessions = <<ServerNew(Host, RootToken)>>
    /\ calls = [c \in Calls |-> IdleCall]
    /\ remote = [store |-> [n \in {"memos/1"} |-> NoteA], assigned |-> 1,
                 created |-> 0, issued |-> 0, revoked |-> {}]
    /\ ncalls = 0
    /\ observed = [created |-> <<>>, deleted |-> {}, cleanups |-> 0,
                   signouts |-> 0]
    /\ main = MainServing

\* calls in one behaviour of concurrent calls: one for each slot
MaxConc == Cardinality(Calls)

\* the inputs of the concurrent calls
ConcInputs(tool) ==
    CASE tool = "list_memos" -> {[any |-> TRUE]}
      [] tool \in {"get_memo", "list_memo_comments"} -> {[name |-> "memos/1"]}
      [] tool = "create_memo" -> {VariantB}
      [] tool = "update_memo" -> {WithName(VariantB, "memos/1"), VariantA}
      [] tool = "delete_memo" -> {WithName(VariantA, "memos/1")}
      [] tool = "create_memo_comment" ->
            {[memo_name |-> "memos/1", comment |-> VariantC]}

NextConc ==
    \E c \in Calls :
        \/ \E tool \in Tools : \E j \in ConcInputs(tool) :
             ncalls < MaxConc /\ InvokeTool(c, tool, j)
        \/ \E arg \in {[username |-> "alice", password |-> "pw"]} :
             ncalls < MaxConc /\ InvokeService(c, "sign_in", 1, arg)
        \/ Issue(c)
        \/ SendFail(c)
        \/ Respond(c)
        \/ Return(c)

SpecConc == InitServing /\ [][NextConc]_vars

(***************************************************************************)
(* Listings against a service that may hand out a cursor with every page,   *)
(* without end.                                                             *)
(***************************************************************************)
\* the answers of a list endpoint that never fails and never ends: a page
\* and a cursor, which may be the one the request carried
EndlessAnswers(m) ==
    {Reply(200, [memos |-> p, nextPageToken |-> t]) :
        p \in PagesAfter(m), t \in PageTokens}

\* the list request in flight is answered with a page and a cursor
RespondEndless(c) ==
    LET call == calls[c]
    IN
    /\ call.pc = "await"
    /\ call.op = "list_notes"
    /\ \E rsp \in EndlessAnswers(Len(call.served)) :
          calls' = [calls EXCEPT
                      ![c] = OnResponse(call, sessions[call.sess], rsp)]
    /\ UNCHANGED <<sessions, remote, ncalls, observed, main>>

\* the model follows a call up to MaxDrain requests
IssueDrain(c) == calls[c].nreq < MaxDrain /\ Issue(c)

NextDrain ==
    \E c \in Calls :
        \/ Quiet /\ InvokeTool(c, "list_memos", [any |-> TRUE])
        \/ IssueDrain(c)
        \/ SendFail(c)
        \/ Respond(c)
        \/ RespondEndless(c)
        \/ Return(c)

SpecDrain == InitServing /\ [][NextDrain]_vars

(***************************************************************************)
(* The claims.                                                              *)
(***************************************************************************)
Done(c) == calls[c].pc = "done"

\* the call in slot c got an answer to each of its requests
Answered(c) == calls[c].nreq > 0 /\ calls[c].nrsp = calls[c].nreq

\* the last answer of the call in slot c has a non-2xx status
AnsweredNon2xx(c) == Answered(c) /\ ~IsSuccess(calls[c].rsp.status)

C2_ListFailsWhole ==
    \A c \in Calls :
        (Done(c) /\ calls[c].op = "list_notes"
            /\ calls[c].npages < calls[c].nreq)
        => /\ calls[c].result.kind = "err"
           /\ calls[c].payload = ErrorPayload(calls[c].result.msg)
           /\ calls[c].nreq = calls[c].npages + 1

\* a list_notes call has failed on a later page, with items accumulated
C2_Witness ==
    \E c \in Calls :
        /\ Done(c) /\ calls[c].op = "list_notes"
        /\ calls[c].npages >= 1 /\ calls[c].npages < calls[c].nreq
        /\ Len(calls[c].memos) >= 1
        /\ calls[c].result.kind = "err"

\* the tool call in slot c was given a Note that decoded and has no name
AbsentName(c) ==
    /\ calls[c].tool \in {"update_memo", "delete_memo"}
    /\ calls[c].payload # RejectedPayload
    /\ calls[c].params.name = None

\* C3: update and delete of a Note without a name send no request and end
\* in a failure reported to the caller: Err from update_note, the error
\* payload from the delete_memo tool.
C3_AbsentNameFailsBeforeRequest ==
    \A c \in Calls :
        (Done(c) /\ AbsentName(c))
        => /\ calls[c].nreq = 0
           /\ calls[c].tool = "update_memo" => calls[c].result.kind = "err"
           /\ calls[c].tool = "delete_memo" =>
                /\ calls[c].payload.kind = "json"
                /\ DOMAIN calls[c].payload.json = {"error"}

\* C4: every tool call whose input decoded ends with a payload, and with the
\* payload {"error": message} when the service operation did not succeed.
C4_EveryFailureEncoded ==
    \A c \in Calls :
        (Done(c) /\ calls[c].tool # "none"
            /\ calls[c].payload # RejectedPayload)
        => /\ calls[c].payload.kind = "json"
           /\ calls[c].result.kind # "ok" =>
                /\ calls[c].result.kind = "err"
                /\ calls[c].payload = ErrorPayload(calls[c].result.msg)

\* C5 as stated: a tool call whose last answer has a non-2xx status fails
\* with "Request failed: <status> - <body>" and returns {"error": that}.
C5_Non2xxIsRequestFailed ==
    \A c \in Calls :
        (Done(c) /\ calls[c].tool # "none" /\ AnsweredNon2xx(c))
        => /\ calls[c].result =
                Err(RequestFailed(calls[c].rsp.status, calls[c].rsp.body))
           /\ calls[c].payload = ErrorPayload(calls[c].result.msg)

\* C5, amended: a tool call whose last answer has a non-2xx status fails,
\* with "Request failed: <status> - <body>" when the body of the answer can
\* be read and with the error of reading it otherwise; the message reaches
\* the payload unchanged, {"error": <that non-empty message>}, never a
\* success payload.
C5_Non2xxIsError ==
    \A c \in Calls :
        (Done(c) /\ calls[c].tool # "none" /\ AnsweredNon2xx(c))
        => /\ calls[c].result =
                (IF calls[c].rsp.readable
                 THEN Err(RequestFailed(calls[c].rsp.status,
                                        calls[c].rsp.body))
                 ELSE Err(BodyError))
           /\ calls[c].payload = JsonPayload([error |-> calls[c].result.msg])
           /\ calls[c].result.msg.fmt # ""

\* a delete_memo call was answered "not found"
C5_Witness ==
    \E c \in Calls :
        /\ Done(c) /\ calls[c].tool = "delete_memo" /\ AnsweredNon2xx(c)
        /\ calls[c].rsp.status = 404 /\ calls[c].rsp.readable
        /\ calls[c].payload.kind = "json"

\* C6: a cleanup of a derived session sends exactly one request, the POST
\* to auth/signout with the session's credential; a cleanup of a root
\* session sends none; no other operation sends a sign-out request, and the
\* root credential is never signed out.
C6_CleanupSignsOutDerivedOnly ==
    /\ \A c \in Calls :
        /\ (Done(c) /\ calls[c].op = "cleanup") =>
              IF sessions[calls[c].sess].sign_out_required
              THEN /\ calls[c].nreq = 1
                   /\ IsSignOut(calls[c].req)
                   /\ calls[c].req.bearer = sessions[calls[c].sess].token
                   /\ calls[c].req.base_url = sessions[calls[c].sess].base_url
              ELSE calls[c].nreq = 0
        /\ (calls[c].nreq > 0 /\ IsSignOut(calls[c].req)) =>
              calls[c].op = "cleanup"
    /\ sessions[1].token \notin remote.revoked

\* a cleanup of a derived session has returned and its token is signed out
C6_Witness ==
    \E c \in Calls :
        /\ Done(c) /\ calls[c].op = "cleanup"
        /\ sessions[calls[c].sess].sign_out_required
        /\ calls[c].nreq = 1 /\ calls[c].result.kind = "ok"
        /\ sessions[calls[c].sess].token \in remote.revoked

\* C7: every step leaves the sessions that exist as they are; the step that
\* ends a sign_in call with Ok adds one session, with the caller's base_url,
\* the accessToken of the answer and marked derived, and hands it to the
\* caller; the step that ends it with a failure adds none.
C7_SignInReturnsNewSession ==
    [][/\ Len(sessions') >= Len(sessions)
       /\ \A i \in 1..Len(sessions) : sessions'[i] = sessions[i]
       /\ \A c \in Calls :
            (calls[c].op = "sign_in" /\ calls[c].pc = "await"
                /\ calls'[c].pc = "done")
            => LET r == calls'[c].result
               IN  IF r.kind = "ok"
                   THEN /\ r.val = [base_url |->
                                       sessions[calls[c].sess].base_url,
                                    token |->
                                       calls'[c].rsp.body["accessToken"],
                                    sign_out_required |-> TRUE]
                        /\ sessions' = Append(sessions, r.val)
                   ELSE r.kind = "err" /\ sessions' = sessions
       /\ (\A c \in Calls : ~(calls[c].op = "sign_in" /\ calls[c].pc = "await"
                              /\ calls'[c].pc = "done"))
            => sessions' = sessions]_vars

\* a sign_in call has returned a session
C7_Witness ==
    \E c \in Calls :
        /\ Done(c) /\ calls[c].op = "sign_in" /\ calls[c].result.kind = "ok"
        /\ Len(sessions) = 2
        /\ sessions[2] = calls[c].result.val
        /\ sessions[2].token = "at1"
        /\ sessions[1] = ServerNew(Host, RootToken)

\* C8: an update_note call for a Note with a name sends exactly one request,
\* the PATCH to <note.name> with the update mask content, state, visibility,
\* tags, pinned, whatever other fields the Note carries.
C8_UpdateMaskIsFixed ==
    \A c \in Calls :
        (calls[c].op = "update_note" /\ calls[c].pc \in {"await", "done"}
            /\ calls[c].arg.note.name # None)
        => /\ calls[c].nreq = 1
           /\ calls[c].req.method = "PATCH"
           /\ calls[c].req.endpoint.path = <<calls[c].arg.note.name>>
           /\ calls[c].req.endpoint.query.key = "updateMask"
           /\ Range(calls[c].req.endpoint.query.value) =
                {"content", "state", "visibility", "tags", "pinned"}
           /\ Len(calls[c].req.endpoint.query.value) = 5

\* an update_note call for a Note that carries a creator has sent its PATCH
C8_Witness ==
    \E c \in Calls :
        /\ Done(c) /\ calls[c].op = "update_note"
        /\ calls[c].arg.note.name = "memos/1"
        /\ calls[c].arg.note.creator # None
        /\ calls[c].nreq = 1 /\ calls[c].result.kind = "ok"

\* the state, content and visibility of a Note
Kept(note) ==
    [state |-> note.state, content |-> note.content,
     visibility |-> note.visibility]

\* C9: a get of a name that a create call (create_note or
\* create_note_comment) returned, with no update or delete of it since,
\* returns a Note with the state, content and visibility given to the
\* create call.
C9_CreateThenGet ==
    \A c \in Calls :
        (Done(c) /\ calls[c].op = "get_note" /\ calls[c].result.kind = "ok"
            /\ calls[c].arg.note_name \in DOMAIN observed.created)
        => Kept(calls[c].result.val) = observed.created[calls[c].arg.note_name]

\* a get has returned a note that was created archived and public
C9_Witness ==
    \E c \in Calls :
        /\ Done(c) /\ calls[c].op = "get_note" /\ calls[c].result.kind = "ok"
        /\ calls[c].arg.note_name \in DOMAIN observed.created
        /\ calls[c].result.val.state = "Archived"
        /\ calls[c].result.val.visibility = "Public"
        /\ calls[c].result.val.content = "b"

\* C10: get and delete fail when the answer is non-2xx, delete returns Ok
\* only on a 2xx answer, and a get of a name whose delete returned Ok fails.
C10_DeleteThenGetFails ==
    \A c \in Calls :
        Done(c) =>
            /\ (calls[c].op \in {"get_note", "delete_note"}
                    /\ AnsweredNon2xx(c))
               => calls[c].result.kind = "err"
            /\ (calls[c].op = "delete_note" /\ calls[c].result.kind = "ok")
               => Answered(c) /\ IsSuccess(calls[c].rsp.status)
            /\ (calls[c].op = "get_note"
                    /\ calls[c].arg.note_name \in observed.deleted)
               => /\ calls[c].result.kind = "err"
                  /\ Answered(c) => ~IsSuccess(calls[c].rsp.status)

\* a get of a deleted note was answered "not found" and has failed
C10_Witness ==
    \E c \in Calls :
        /\ Done(c) /\ calls[c].op = "get_note"
        /\ calls[c].arg.note_name \in observed.deleted
        /\ Answered(c) /\ calls[c].rsp.status = 404
        /\ calls[c].result =
              Err(RequestFailed(404, [message |-> "not found"]))

\* C11: main() sends at most one identity check, the GET auth/me with the
\* credential of the environment; the tool service is constructed and the
\* listener is bound only after that check was answered and succeeded; when
\* the check fails main() returns its error, and then the service is not
\* constructed, the listener is not bound and no call is served.
C11_IdentityCheckFirst ==
    /\ main.nreq <= 1
    /\ main.nreq = 1 =>
          /\ main.req.method = "GET"
          /\ main.req.endpoint = Endpoint(<<"auth/me">>)
          /\ main.req.bearer = RootToken
          /\ main.req.base_url = <<"http://", Host, "/api/v1">>
    /\ (main.service \/ main.bound \/ ncalls > 0) =>
          /\ main.nreq = 1 /\ main.nrsp = 1
          /\ IsSuccess(main.rsp.status)
          /\ main.check.kind = "ok"
    /\ ncalls > 0 => main.service /\ main.bound
    /\ main.check.kind = "err" =>
          /\ main.pc = "aborted"
          /\ main.result = main.check
          /\ ~main.service /\ ~main.bound
          /\ ncalls = 0
          /\ \A c \in Calls : calls[c].pc = "idle"

\* the identity check was answered with a server error and main() returned
\* that error
C11_Witness ==
    /\ main.pc = "aborted" /\ main.nreq = 1 /\ main.nrsp = 1
    /\ main.rsp.status = 500 /\ main.rsp.readable
    /\ main.result = Err(RequestFailed(500, main.rsp.body))

\* the outcome of a call that has sent a request, from its own arguments
\* and exchanges only: the answers it got and the pages it was served
OwnOutcome(call) ==
    IF call.nrsp < call.nreq THEN Err(SendError)
    ELSE CASE call.op = "list_notes" ->
                IF IsPage(call, call.rsp)
                THEN Ok(DeserializeNotes(call.served))
                ELSE validate_data_response(call.rsp, "NotesRespones")
           [] call.op \in {"get_note", "create_note", "create_note_comment",
                           "update_note"} ->
                validate_data_response(call.rsp, "Note")
           [] call.op = "delete_note" -> validate_response(call.rsp)
           [] call.op = "list_note_comments" ->
                validate_data_response(call.rsp, "CommentsResponse")
           [] call.op = "sign_in" ->
                sign_in_result(ServerNew(Host, RootToken), call.rsp)

\* the dispatcher's session is as constructed; every request of a tool call
\* carries its base_url and credential; a call that has ended ended with
\* the outcome its own arguments and exchanges give; the request of a call
\* that is not a listing is the one its own arguments give
Isolated ==
    /\ sessions[1] = ServerNew(Host, RootToken)
    /\ \A c \in Calls :
        /\ (calls[c].tool # "none" /\ calls[c].nreq > 0) =>
              /\ calls[c].req.bearer = RootToken
              /\ calls[c].req.base_url = <<"http://", Host, "/api/v1">>
        /\ (calls[c].nreq > 0 /\ calls[c].op # "list_notes") =>
              calls[c].req = RequestOf(calls[c], ServerNew(Host, RootToken))
        /\ (Done(c) /\ calls[c].nreq > 0) =>
              /\ calls[c].result = OwnOutcome(calls[c])
              /\ calls[c].tool # "none" =>
                    calls[c].payload =
                        ToolEncode(calls[c].tool, OwnOutcome(calls[c]))

\* a step changes the record of one call at most, and none of the sessions
\* that exist
OneCallSteps ==
    /\ \A c, d \in Calls :
          (c # d /\ calls'[c] # calls[c]) => calls'[d] = calls[d]
    /\ \A i \in 1..Len(sessions) :
          i <= Len(sessions') /\ sessions'[i] = sessions[i]

\* C12: with calls running concurrently the dispatcher's session keeps the
\* base_url, credential and derived flag it was constructed with, every
\* request of every tool call carries that credential, every call ends with
\* the outcome its own input and its own exchanges determine, and the
\* steps of one call leave the locals (accumulator, cursor) of the other
\* as they are.
C12_CallsAreIsolated == []Isolated /\ [][OneCallSteps]_vars

\* a listing has returned two pages beside a sign_in call that has
\* returned a new session
C12_Witness ==
    \E c, d \in Calls :
        /\ c # d
        /\ Done(c) /\ calls[c].op = "list_notes" /\ calls[c].npages >= 2
        /\ calls[c].result.kind = "ok" /\ Len(calls[c].memos) >= 1
        /\ calls[d].op = "sign_in" /\ calls[d].pc = "done"
        /\ calls[d].result.kind = "ok"
        /\ Len(sessions) = 2

\* C13: in a list_notes call a request is in flight only while the call
\* awaits it, and then every earlier request was answered with a page that
\* was validated (requests = pages + 1); between two requests and after an
\* Ok return the requests are as many as the pages consumed, and a failed
\* call has sent one more, the failed one.  The first request is the GET of
\* "memos" with no pageToken; every later one is the GET of "memos" with
\* pageToken equal to the nextPageToken of the page received just before.
C13_PagesAreChained ==
    \A c \in Calls :
        calls[c].op = "list_notes" =>
            /\ calls[c].pc = "await" =>
                  /\ calls[c].nreq = calls[c].nrsp + 1
                  /\ calls[c].nrsp = calls[c].npages
                  /\ calls[c].req.method = "GET"
                  /\ IF calls[c].nreq = 1
                     THEN calls[c].req.endpoint = Endpoint(<<"memos">>)
                     ELSE /\ IsPage(calls[c], calls[c].rsp)
                          /\ "nextPageToken" \in DOMAIN calls[c].rsp.body
                          /\ calls[c].rsp.body["nextPageToken"] # ""
                          /\ calls[c].req.endpoint =
                                EndpointQ(<<"memos">>, "pageToken",
                                          calls[c].rsp.body["nextPageToken"])
            /\ calls[c].pc = "run" =>
                  /\ calls[c].nreq = calls[c].nrsp
                  /\ calls[c].nrsp = calls[c].npages
            /\ calls[c].pc = "done" =>
                  /\ calls[c].nreq \in {calls[c].npages, calls[c].npages + 1}
                  /\ calls[c].nrsp \in {calls[c].nreq - 1, calls[c].nreq}
                  /\ calls[c].result.kind = "ok" =>
                        calls[c].nreq = calls[c].npages

\* a list_notes call awaits its third request, which carries the cursor
\* "t2" of the second page
C13_Witness ==
    \E c \in Calls :
        /\ calls[c].op = "list_notes" /\ calls[c].pc = "await"
        /\ calls[c].nreq = 3 /\ calls[c].npages = 2
        /\ calls[c].rsp.body["nextPageToken"] = "t2"
        /\ calls[c].req.endpoint.query = [key |-> "pageToken", value |-> "t2"]

\* the type each operation decodes the body of its answer into
ResponseType ==
    [list_notes |-> "NotesRespones", get_note |-> "Note",
     create_note |-> "Note", create_note_comment |-> "Note",
     update_note |-> "Note", list_note_comments |-> "CommentsResponse",
     sign_in |-> "sign_in::ResponseBody"]

\* rsp is a 2xx answer whose body is not a T
Mismatch(rsp, T) ==
    IsSuccess(rsp.status) /\ ~(rsp.readable /\ Decodes(T, rsp.body))

\* the Note has every field, the enums one of their variants
WholeNote(n) ==
    /\ DOMAIN n = {"name", "state", "creator", "content", "visibility"}
    /\ n.state \in DOMAIN StateWire
    /\ n.visibility \in DOMAIN VisibilityWire
    /\ n.content # Null /\ n.name # Null /\ n.creator # Null

\* C14: an operation that decodes its answer into a typed result fails when
\* the last answer is 2xx with a body that does not match the type (another
\* schema, or a required field missing), for the identity check of main()
\* too; a tool then returns {"error": message}, the payload it returns for
\* a request that could not be sent; and a Note that is returned has every
\* required field.
C14_SchemaMismatchFails ==
    /\ \A c \in Calls :
        /\ (Done(c) /\ Answered(c) /\ calls[c].op \in DOMAIN ResponseType
                /\ Mismatch(calls[c].rsp, ResponseType[calls[c].op]))
           => /\ calls[c].result = Err(BodyError)
              /\ calls[c].tool # "none" =>
                    /\ calls[c].payload = ErrorPayload(BodyError)
                    /\ DOMAIN calls[c].payload.json =
                          DOMAIN ErrorPayload(SendError).json
        /\ (Done(c) /\ calls[c].result.kind = "ok"
                /\ calls[c].op \in DOMAIN ResponseType)
           => CASE ResponseType[calls[c].op] = "Note" ->
                      WholeNote(calls[c].result.val)
                [] ResponseType[calls[c].op]
                        \in {"NotesRespones", "CommentsResponse"} ->
                      \A i \in 1..Len(calls[c].result.val) :
                          WholeNote(calls[c].result.val[i])
                [] OTHER -> calls[c].result.val.token # ""
    /\ (main.nrsp = 1
            /\ Mismatch(main.rsp, "get_current_user::ResponseBody"))
       => main.check = Err(BodyError) /\ main.pc = "aborted"

\* a get_memo call was answered 200 with a note that lacks "visibility" and
\* has returned the error payload
C14_Witness ==
    \E c \in Calls :
        /\ Done(c) /\ calls[c].tool = "get_memo" /\ Answered(c)
        /\ calls[c].rsp.status = 200
        /\ DOMAIN calls[c].rsp.body =
              {"name", "state", "creator", "content"}
        /\ calls[c].payload = ErrorPayload(BodyError)

\* the cursor of the page rsp: empty when the body carries none
CursorOf(rsp) ==
    IF "nextPageToken" \in DOMAIN rsp.body THEN rsp.body["nextPageToken"]
    ELSE ""

\* C15: a list_notes call has returned exactly when its last request failed
\* (no answer, or an answer that is no 2xx page) or its last page carried an
\* empty or no cursor.  While every answer is a page with a cursor, also
\* the cursor the request carried, the call has not returned: it holds all
\* the items served and goes on to the next request, however many pages it
\* has consumed.
C15_ListReturnsOnlyOnEnd ==
    \A c \in Calls :
        (calls[c].op = "list_notes" /\ calls[c].nreq > 0) =>
            LET call == calls[c]
                failed == \/ call.pc = "done" /\ call.nrsp < call.nreq
                          \/ Answered(c) /\ ~IsPage(call, call.rsp)
                ended == /\ Answered(c) /\ IsPage(call, call.rsp)
                         /\ CursorOf(call.rsp) = ""
            IN  /\ Done(c) <=> (failed \/ ended)
                /\ (Answered(c) /\ ~failed /\ ~ended) =>
                      /\ call.pc = "run"
                      /\ call.next_page_token = CursorOf(call.rsp)
                      /\ call.npages = call.nreq
                      /\ call.memos = DeserializeNotes(call.served)

\* a list_notes call has consumed MaxDrain pages, the last one asked with
\* the cursor "t1" and handing back "t1", holds an item of each and has not
\* returned
C15_Witness ==
    \E c \in Calls :
        /\ calls[c].op = "list_notes" /\ calls[c].pc = "run"
        /\ calls[c].npages = MaxDrain
        /\ Len(calls[c].memos) = MaxDrain
        /\ calls[c].req.endpoint.query = [key |-> "pageToken", value |-> "t1"]
        /\ CursorOf(calls[c].rsp) = "t1"

\* C16: a cleanup that sent its sign-out request returns Ok(()) when the
\* request was answered, whatever the status of the answer, and the error
\* of send() when it was not; it returns no other error.
C16_CleanupIgnoresStatus ==
    \A c \in Calls :
        (Done(c) /\ calls[c].op = "cleanup") =>
            /\ (calls[c].nreq = 1 /\ Answered(c)) =>
                  calls[c].result = Ok(Unit)
            /\ (calls[c].nreq = 1 /\ ~Answered(c)) =>
                  calls[c].result = Err(SendError)
            /\ calls[c].result.kind = "err" =>
                  calls[c].nreq = 1 /\ calls[c].nrsp = 0
            /\ calls[c].result.kind \in {"ok", "err"}

\* a cleanup of a derived session was answered with a server error and has
\* returned Ok
C16_Witness ==
    \E c \in Calls :
        /\ Done(c) /\ calls[c].op = "cleanup"
        /\ sessions[calls[c].sess].sign_out_required
        /\ Answered(c) /\ calls[c].rsp.status = 500
        /\ calls[c].result = Ok(Unit)

\* C17: a session that sign_in returned keeps its base_url, its credential
\* and its derived mark through every cleanup; every cleanup called on such
\* a session sends a sign-out request, so the sign-out requests sent are as
\* many as those cleanup calls; and every call on such a session sends its
\* request with the session's credential, also when that credential was
\* signed out before.
C17_CleanupKeepsSession ==
    /\ \A i \in 2..Len(sessions) :
          /\ sessions[i].sign_out_required
          /\ sessions[i].base_url = sessions[1].base_url
          /\ sessions[i].token \in Range(TokenPool)
    /\ observed.signouts = observed.cleanups
    /\ \A c \in Calls :
          (calls[c].sess > 1 /\ calls[c].pc \in {"await", "done"}) =>
              /\ calls[c].nreq >= 1
              /\ calls[c].req.bearer = sessions[calls[c].sess].token
              /\ calls[c].req = RequestOf(calls[c], sessions[calls[c].sess])

\* the second cleanup of a derived session has sent the second sign-out
\* request, with the credential the first had signed out, and was answered
\* "unauthenticated"
C17_Witness ==
    \E c \in Calls :
        /\ Done(c) /\ calls[c].op = "cleanup" /\ calls[c].sess = 2
        /\ observed.cleanups = 2 /\ observed.signouts = 2
        /\ calls[c].req.bearer = sessions[2].token
        /\ sessions[2].token \in remote.revoked
        /\ Answered(c) /\ calls[c].rsp.status = 401

\* C18: a delete_memo call sends a request, the DELETE of the name, only
\* when its input carries name, state, content and visibility; an input
\* that lacks state, content or visibility (one that carries the name only,
\* too) is rejected when it is decoded and no request is sent; an input
\* with state, content and visibility and no name is decoded, to a Note
\* whose name is absent.
C18_DeleteDecodesNote ==
    \A c \in Calls :
        (calls[c].tool = "delete_memo" /\ calls[c].pc # "idle") =>
            LET j == calls[c].input
                required == {"state", "content", "visibility"}
            IN  /\ calls[c].nreq > 0 =>
                      /\ required \cup {"name"} \subseteq DOMAIN j
                      /\ calls[c].nreq = 1
                      /\ calls[c].req.method = "DELETE"
                      /\ calls[c].req.endpoint = Endpoint(<<j["name"]>>)
                /\ ~(required \subseteq DOMAIN j) =>
                      /\ calls[c].pc = "done"
                      /\ calls[c].payload = RejectedPayload
                      /\ calls[c].nreq = 0
                /\ (j \in Variants) =>
                      /\ calls[c].payload # RejectedPayload
                      /\ calls[c].params = DeserializeNote(j)
                      /\ calls[c].params.name = None

\* a delete_memo call whose input is the name only was rejected and has
\* sent no request
C18_Witness ==
    \E c \in Calls :
        /\ Done(c) /\ calls[c].tool = "delete_memo"
        /\ calls[c].input = [name |-> "memos/1"]
        /\ calls[c].payload = RejectedPayload /\ calls[c].nreq = 0

=============================================================================
